---------------------------- MODULE Spec2Model ----------------------------
(***************************************************************************)
(* Model of the FitnessTracker mobile client: the food screen              *)
(* (frontend/app/(tabs)/food.tsx, Food), the profile screen's BMI label    *)
(* (same file, Profile), the water screen (frontend/app/(tabs)/water.tsx)  *)
(* and the dashboard (unnamed/part_001).  The screens do not share state,  *)
(* so each has its own specification: SpecFood, SpecProfile, SpecMetrics;  *)
(* SpecScale applies the entry computation of handleAddFood to a wider     *)
(* range of foods and grams texts than the food screen's state space       *)
(* allows.                                                                 *)
(*                                                                         *)
(* JavaScript numbers are binary floating-point values rounded to nearest, *)
(* ties to even.  The model keeps that arithmetic and narrows the          *)
(* significand from 53 bits to Precision bits; the exponent is unbounded,  *)
(* so overflow to Infinity and subnormals do not occur.  -0 is not         *)
(* distinguished from 0.                                                   *)
(***************************************************************************)
EXTENDS Integers, Sequences, FiniteSets, TLC

\* ------------------------------------------------------------------------
\* Bounds of the model
\* ------------------------------------------------------------------------
Precision == 11        \* bits of significand kept by a number
MaxEntries == 2        \* entries logged or being logged before adding stops
MaxRefresh == 1        \* dashboard GETs in flight at once
MaxAuthOps == 2        \* calls of the auth provider suspended at once
MaxRequests == 2       \* requests of the water or activity screen in flight

\* ------------------------------------------------------------------------
\* Numbers: the JavaScript Number type
\* ------------------------------------------------------------------------
RECURSIVE Pow2(_)
Pow2(n) == IF n <= 0 THEN 1 ELSE 2 * Pow2(n - 1)

RECURSIVE Pow10(_)
Pow10(n) == IF n <= 0 THEN 1 ELSE 10 * Pow10(n - 1)

Abs(x) == IF x < 0 THEN -x ELSE x

NaN == [k |-> "nan"]
Zero == [k |-> "fin", m |-> 0, e |-> 0]

\* a finite number is m * 2^e with m = 0 or 2^(Precision-1) <= |m| < 2^Precision
Fin(m, e) == [k |-> "fin", m |-> m, e |-> e]
Inf(s) == [k |-> "inf", s |-> s]

IsNaN(x) == x.k = "nan"
IsFin(x) == x.k = "fin"
Sign(x) == IF x.k = "inf" THEN x.s
           ELSE IF x.k = "nan" \/ x.m = 0 THEN 0
           ELSE IF x.m < 0 THEN -1 ELSE 1

\* n / d for n > 0, d > 0, scaled by powers of two into [2^(P-1), 2^P)
RECURSIVE Normalise(_, _, _)
Normalise(n, d, e) ==
  IF n >= d * Pow2(Precision) THEN Normalise(n, 2 * d, e + 1)
  ELSE IF n < d * Pow2(Precision - 1) THEN Normalise(2 * n, d, e - 1)
  ELSE [n |-> n, d |-> d, e |-> e]

\* the number nearest to s * n / d (n >= 0, d > 0), ties to even
RoundRat(s, n, d) ==
  IF n = 0 THEN Zero
  ELSE LET r == Normalise(n, d, 0)
           q == r.n \div r.d
           rem == r.n % r.d
           up == 2 * rem > r.d \/ (2 * rem = r.d /\ q % 2 = 1)
           q1 == IF up THEN q + 1 ELSE q
       IN IF q1 = Pow2(Precision) THEN Fin(s * Pow2(Precision - 1), r.e + 1)
          ELSE Fin(s * q1, r.e)

\* a numeric literal of the source or of a JSON body: n / d in decimal
Num(n, d) == RoundRat(IF n < 0 THEN -1 ELSE 1, Abs(n), d)

\* a * b
Mul(a, b) ==
  IF IsNaN(a) \/ IsNaN(b) THEN NaN
  ELSE IF a.k = "inf" \/ b.k = "inf"
       THEN IF Sign(a) * Sign(b) = 0 THEN NaN ELSE Inf(Sign(a) * Sign(b))
  ELSE IF a.m = 0 \/ b.m = 0 THEN Zero
  ELSE LET r == RoundRat(Sign(a) * Sign(b), Abs(a.m) * Abs(b.m), 1)
       IN Fin(r.m, r.e + a.e + b.e)

\* a / b
Div(a, b) ==
  IF IsNaN(a) \/ IsNaN(b) THEN NaN
  ELSE IF a.k = "inf" THEN IF b.k = "inf" THEN NaN
                           ELSE Inf(IF Sign(b) < 0 THEN -a.s ELSE a.s)
  ELSE IF b.k = "inf" THEN Zero
  ELSE IF b.m = 0 THEN IF a.m = 0 THEN NaN ELSE Inf(Sign(a))
  ELSE IF a.m = 0 THEN Zero
  ELSE LET r == RoundRat(Sign(a) * Sign(b), Abs(a.m), Abs(b.m))
       IN Fin(r.m, r.e + a.e - b.e)

\* a < b  (false when either is NaN)
Less(a, b) ==
  IF IsNaN(a) \/ IsNaN(b) THEN FALSE
  ELSE IF Sign(a) # Sign(b) THEN Sign(a) < Sign(b)
  ELSE IF a.k = "inf" \/ b.k = "inf"
       THEN IF a.k = b.k THEN FALSE
            ELSE IF a.k = "inf" THEN a.s < 0 ELSE b.s > 0
  ELSE IF Sign(a) = 0 THEN FALSE
  ELSE IF Sign(a) > 0 THEN a.e < b.e \/ (a.e = b.e /\ a.m < b.m)
  ELSE a.e > b.e \/ (a.e = b.e /\ a.m < b.m)

\* Math.min(a, b)
MathMin(a, b) ==
  IF IsNaN(a) \/ IsNaN(b) THEN NaN
  ELSE IF Less(b, a) THEN b ELSE a

\* ToBoolean of a value that is a number or undefined
Undefined == [k |-> "undefined"]
Truthy(x) == x.k = "inf" \/ (x.k = "fin" /\ x.m # 0)

\* ------------------------------------------------------------------------
\* parseFloat over a text held as a sequence of characters
\* ------------------------------------------------------------------------
Digits == <<"0", "1", "2", "3", "4", "5", "6", "7", "8", "9">>
IsDigit(c) == \E i \in 1..10 : Digits[i] = c
DigitVal(c) == (CHOOSE i \in 1..10 : Digits[i] = c) - 1

\* index after the run of digits of text that starts at i
RECURSIVE ScanDigits(_, _)
ScanDigits(text, i) ==
  IF i <= Len(text) /\ IsDigit(text[i]) THEN ScanDigits(text, i + 1) ELSE i

\* value of the digits text[i..j-1] appended to acc
RECURSIVE DigitsValue(_, _, _, _)
DigitsValue(text, i, j, acc) ==
  IF i >= j THEN acc
  ELSE DigitsValue(text, i + 1, j, 10 * acc + DigitVal(text[i]))

\* parseFloat(text): the longest prefix  [+-] digits [. digits]  with at
\* least one digit, NaN when there is none.  The texts of the model hold no
\* white space, exponent part or "Infinity".
ParseFloat(text) ==
  LET signed == Len(text) >= 1 /\ text[1] \in {"-", "+"}
      s == IF signed /\ text[1] = "-" THEN -1 ELSE 1
      i0 == IF signed THEN 2 ELSE 1
      i1 == ScanDigits(text, i0)
      dot == i1 <= Len(text) /\ text[i1] = "."
      f0 == i1 + 1
      f1 == IF dot THEN ScanDigits(text, f0) ELSE f0
      nfrac == IF dot THEN f1 - f0 ELSE 0
      ip == DigitsValue(text, i0, i1, 0)
      n == IF dot THEN DigitsValue(text, f0, f1, ip) ELSE ip
  IN IF (i1 - i0) + nfrac = 0 THEN NaN
     ELSE RoundRat(s, n, Pow10(nfrac))

\* ------------------------------------------------------------------------
\* Values exchanged with the backend
\* ------------------------------------------------------------------------
Null == [k |-> "null"]
Hundred == Num(100, 1)

\* GET /api/food-database: the reference foods, numeric per-100g fields
FoodDB ==
  << [id |-> 1, name |-> "Rice",
      kcal_per_100g |-> Num(200, 1), proteins_per_100g |-> Num(27, 10),
      carbs_per_100g |-> Num(44, 1), fats_per_100g |-> Num(3, 10)]
  >>

\* texts the grams field can hold after onChangeText
GramsInputs ==
  { <<>>, <<"5", "0">>, <<"0">> }

\* ------------------------------------------------------------------------
\* State
\* ------------------------------------------------------------------------
VARIABLES
  \* Food screen (useState of Food)
  foodDatabase,    \* foods loaded from the backend
  foodLoading,     \* loading flag of the food screen
  modalVisible,    \* the Add Food modal is shown
  selectedFood,    \* Null or the food picked in the modal
  grams,           \* text of the grams field
  todayEntries,    \* the day's entry list
  alert,           \* message of the last Alert.alert, "" when none yet
  \* requests of the food screen
  foodDbGet,       \* GET /api/food-database: "sent" or "done"
  logGet,          \* GET /api/food-logs/{date}: [st, data]
  foodPosts,       \* handleAddFood calls suspended at their POST: what
                   \* each captured, the state of its request, and the
                   \* entries added by calls that resumed meanwhile
  backendLog,      \* the backend's food log of the date, Null when none
  \* Profile screen
  user,            \* useAuth().user: Null or the profile
  \* Water screen
  waterData,       \* Null or the water log of the date
  waterLoading,
  waterGets,       \* GETs /api/water-logs/{date} in flight
  \* Dashboard
  dashboardData,   \* Null or the dashboard summary
  dashLoading,
  refreshing,
  dashGets,        \* GETs /api/dashboard/{date} in flight
  \* handleAddFood's computation taken alone
  scaleFood,       \* Null or the food it is applied to
  scaleGrams,      \* the grams text it is applied to
  portion,         \* Null or the entry it built
  \* AuthProvider (useState of AuthContext) and AsyncStorage
  token,           \* Null or the access token in memory
  authLoading,     \* loading flag of the provider
  storage,         \* Null or the value stored under 'auth_token'
  authOps,         \* calls of loadStoredAuth, login, register, logout and
                   \* refreshUser suspended at an await
  \* Register screen
  regLoading,      \* loading flag of the register screen
  regAlert,        \* message of its last Alert.alert, "" when none yet
  route,           \* the screen the router shows
  \* Water screen: addWater
  waterPosts,      \* amounts of the POSTs /api/water-logs in flight
  waterAlert,      \* message of its last Alert.alert, "" when none yet
  \* Activity screen
  activities,      \* the day's activities
  actLoading,
  actModalVisible,
  duration,        \* formData.duration_minutes, a text
  actGets,         \* GETs /api/activity-logs/{date} in flight
  actPosts,        \* POSTs /api/activity-logs in flight
  actAlert,        \* message of its last Alert.alert, "" when none yet
  \* Water screen: the day's log
  waterLog,        \* amounts of the entries the backend holds for the date
  waterReplies,    \* bodies of the GETs the backend has answered, on
                   \* their way to the screen
  waterShown,      \* amounts of the entry cards last rendered, top first
  waterReturned,   \* entries of the response last stored, as the backend
                   \* returned them
  waterGetFailed   \* a GET of the water screen was rejected

foodVars == <<foodDatabase, foodLoading, modalVisible, selectedFood, grams,
              todayEntries, alert, foodDbGet, logGet, foodPosts, backendLog>>
metricVars == <<user, waterData, waterLoading, waterGets, dashboardData,
                dashLoading, refreshing, dashGets>>
scaleVars == <<scaleFood, scaleGrams, portion>>
authVars == <<token, authLoading, storage, authOps, regLoading, regAlert,
              route>>
logVars == <<waterPosts, waterAlert, activities, actLoading, actModalVisible,
             duration, actGets, actPosts, actAlert>>
dayVars == <<waterLog, waterReplies, waterShown, waterReturned,
             waterGetFailed>>
vars == <<foodVars, metricVars, scaleVars, authVars, logVars, dayVars>>

\* ------------------------------------------------------------------------
\* Food screen
\* ------------------------------------------------------------------------
\* BuildEntry with the division by 100 left out of the multiplier
BuildEntryNoDiv(food, gramsNum) ==
  LET multiplier == gramsNum
  IN [food_name |-> food.name,
      grams |-> gramsNum,
      kcal |-> Mul(food.kcal_per_100g, multiplier),
      proteins |-> Mul(food.proteins_per_100g, multiplier),
      carbs |-> Mul(food.carbs_per_100g, multiplier),
      fats |-> Mul(food.fats_per_100g, multiplier)]

\* BuildEntry with kcal copied from the reference instead of scaled
BuildEntryUnscaledKcal(food, gramsNum) ==
  LET multiplier == Div(gramsNum, Hundred)
  IN [food_name |-> food.name,
      grams |-> gramsNum,
      kcal |-> food.kcal_per_100g,
      proteins |-> Mul(food.proteins_per_100g, multiplier),
      carbs |-> Mul(food.carbs_per_100g, multiplier),
      fats |-> Mul(food.fats_per_100g, multiplier)]

\* the entry object literal of handleAddFood
BuildEntry(food, gramsNum) ==
  LET multiplier == Div(gramsNum, Hundred)
  IN [food_name |-> food.name,
      grams |-> gramsNum,
      kcal |-> Mul(food.kcal_per_100g, multiplier),
      proteins |-> Mul(food.proteins_per_100g, multiplier),
      carbs |-> Mul(food.carbs_per_100g, multiplier),
      fats |-> Mul(food.fats_per_100g, multiplier)]

\* logs the backend may hold for the date when the screen mounts
FoodLog(entries) == [k |-> "log", entries |-> entries]
InitialLogs == {Null, FoodLog(<<BuildEntry(FoodDB[1], Num(150, 1))>>)}

RemoveAt(s, i) == [j \in 1..(Len(s) - 1) |-> IF j < i THEN s[j] ELSE s[j + 1]]

FoodStart(log) ==
  /\ foodDatabase = <<>>
  /\ foodLoading = TRUE
  /\ modalVisible = FALSE
  /\ selectedFood = Null
  /\ grams = <<>>
  /\ todayEntries = <<>>
  /\ alert = ""
  /\ foodDbGet = "sent"
  /\ logGet = [st |-> "sent", data |-> Null]
  /\ foodPosts = <<>>
  /\ backendLog = log

InitFood == \E log \in InitialLogs : FoodStart(log)

\* loadFoodDatabase after its GET: response, or error, then finally
LoadFoodDatabaseResolve ==
  /\ foodDbGet = "sent"
  /\ foodDbGet' = "done"
  /\ foodDatabase' = FoodDB
  /\ foodLoading' = FALSE
  /\ UNCHANGED <<modalVisible, selectedFood, grams, todayEntries, alert,
                 logGet, foodPosts, backendLog>>
  /\ UNCHANGED <<metricVars, scaleVars, authVars, logVars, dayVars>>

LoadFoodDatabaseFail ==
  /\ foodDbGet = "sent"
  /\ foodDbGet' = "done"
  /\ foodLoading' = FALSE
  /\ UNCHANGED <<foodDatabase, modalVisible, selectedFood, grams,
                 todayEntries, alert, logGet, foodPosts, backendLog>>
  /\ UNCHANGED <<metricVars, scaleVars, authVars, logVars, dayVars>>

\* the backend answers GET /api/food-logs/{date} with the log it holds
BackendServeLog ==
  /\ logGet.st = "sent"
  /\ logGet' = [st |-> "served", data |-> backendLog]
  /\ UNCHANGED <<foodDatabase, foodLoading, modalVisible, selectedFood,
                 grams, todayEntries, alert, foodDbGet, foodPosts,
                 backendLog>>
  /\ UNCHANGED <<metricVars, scaleVars, authVars, logVars, dayVars>>

\* loadTodayLog after its GET resolved
LoadTodayLogResolve ==
  /\ logGet.st = "served"
  /\ logGet' = [st |-> "done", data |-> Null]
  /\ todayEntries' = IF logGet.data # Null THEN logGet.data.entries
                     ELSE todayEntries
  /\ UNCHANGED <<foodDatabase, foodLoading, modalVisible, selectedFood,
                 grams, alert, foodDbGet, foodPosts, backendLog>>
  /\ UNCHANGED <<metricVars, scaleVars, authVars, logVars, dayVars>>

\* loadTodayLog after its GET was rejected
LoadTodayLogFail ==
  /\ logGet.st \in {"sent", "served"}
  /\ logGet' = [st |-> "done", data |-> Null]
  /\ UNCHANGED <<foodDatabase, foodLoading, modalVisible, selectedFood,
                 grams, todayEntries, alert, foodDbGet, foodPosts,
                 backendLog>>
  /\ UNCHANGED <<metricVars, scaleVars, authVars, logVars, dayVars>>

\* the floating button
OpenModal ==
  /\ ~modalVisible
  /\ modalVisible' = TRUE
  /\ UNCHANGED <<foodDatabase, foodLoading, selectedFood, grams,
                 todayEntries, alert, foodDbGet, logGet, foodPosts,
                 backendLog>>
  /\ UNCHANGED <<metricVars, scaleVars, authVars, logVars, dayVars>>

\* the modal's close button and onRequestClose
CloseModal ==
  /\ modalVisible
  /\ modalVisible' = FALSE
  /\ UNCHANGED <<foodDatabase, foodLoading, selectedFood, grams,
                 todayEntries, alert, foodDbGet, logGet, foodPosts,
                 backendLog>>
  /\ UNCHANGED <<metricVars, scaleVars, authVars, logVars, dayVars>>

\* a row of the food list, shown while no food is selected
SelectFood(i) ==
  /\ modalVisible
  /\ selectedFood = Null
  /\ i \in 1..Len(foodDatabase)
  /\ selectedFood' = foodDatabase[i]
  /\ UNCHANGED <<foodDatabase, foodLoading, modalVisible, grams,
                 todayEntries, alert, foodDbGet, logGet, foodPosts,
                 backendLog>>
  /\ UNCHANGED <<metricVars, scaleVars, authVars, logVars, dayVars>>

\* the grams field, shown while a food is selected
SetGrams(text) ==
  /\ modalVisible
  /\ selectedFood # Null
  /\ text # grams
  /\ grams' = text
  /\ UNCHANGED <<foodDatabase, foodLoading, modalVisible, selectedFood,
                 todayEntries, alert, foodDbGet, logGet, foodPosts,
                 backendLog>>
  /\ UNCHANGED <<metricVars, scaleVars, authVars, logVars, dayVars>>

\* the Back button of the form
Back ==
  /\ modalVisible
  /\ selectedFood # Null
  /\ selectedFood' = Null
  /\ grams' = <<>>
  /\ UNCHANGED <<foodDatabase, foodLoading, modalVisible, todayEntries,
                 alert, foodDbGet, logGet, foodPosts, backendLog>>
  /\ UNCHANGED <<metricVars, scaleVars, authVars, logVars, dayVars>>

\* handleAddFood up to its await: the Add Food button of the form
HandleAddFood ==
  /\ modalVisible
  /\ selectedFood # Null
  /\ IF selectedFood = Null \/ grams = <<>>
     THEN /\ alert' = "Please enter the amount in grams"
          /\ UNCHANGED foodPosts
     ELSE LET gramsNum == ParseFloat(grams)
              entry == BuildEntry(selectedFood, gramsNum)
              newEntries == Append(todayEntries, entry)
          IN /\ Len(todayEntries) + Len(foodPosts) < MaxEntries
             /\ foodPosts' = Append(foodPosts,
                   [selectedFood |-> selectedFood, grams |-> grams,
                    entry |-> entry, newEntries |-> newEntries,
                    st |-> "sent", during |-> <<>>])
             /\ UNCHANGED alert
  /\ UNCHANGED <<foodDatabase, foodLoading, modalVisible, selectedFood,
                 grams, todayEntries, foodDbGet, logGet, backendLog>>
  /\ UNCHANGED <<metricVars, scaleVars, authVars, logVars, dayVars>>

\* the backend stores the entries of a POST /api/food-logs
BackendAcceptFoodPost(i) ==
  /\ i \in 1..Len(foodPosts)
  /\ foodPosts[i].st = "sent"
  /\ backendLog' = FoodLog(foodPosts[i].newEntries)
  /\ foodPosts' = [foodPosts EXCEPT ![i].st = "accepted"]
  /\ UNCHANGED <<foodDatabase, foodLoading, modalVisible, selectedFood,
                 grams, todayEntries, alert, foodDbGet, logGet>>
  /\ UNCHANGED <<metricVars, scaleVars, authVars, logVars, dayVars>>

\* every suspended call notes the entry of a call that resumed meanwhile
\* (field during: history kept for the properties, read by no action)
NoteResolved(posts, entry) ==
  [j \in 1..Len(posts) |->
     [posts[j] EXCEPT !.during = Append(@, entry)]]

\* handleAddFood after its await resolved
AddFoodResolve(i) ==
  /\ i \in 1..Len(foodPosts)
  /\ foodPosts[i].st = "accepted"
  /\ todayEntries' = foodPosts[i].newEntries
  /\ modalVisible' = FALSE
  /\ selectedFood' = Null
  /\ grams' = <<>>
  /\ alert' = "Food added to log!"
  /\ foodPosts' = RemoveAt(NoteResolved(foodPosts, foodPosts[i].entry), i)
  /\ UNCHANGED <<foodDatabase, foodLoading, foodDbGet, logGet, backendLog>>
  /\ UNCHANGED <<metricVars, scaleVars, authVars, logVars, dayVars>>

\* AddFoodReject resetting the form as the success path does
AddFoodRejectResetsForm(i) ==
  /\ i \in 1..Len(foodPosts)
  /\ foodPosts[i].st \in {"sent", "accepted"}
  /\ alert' = "Failed to add food"
  /\ modalVisible' = FALSE
  /\ selectedFood' = Null
  /\ grams' = <<>>
  /\ foodPosts' = RemoveAt(foodPosts, i)
  /\ UNCHANGED <<foodDatabase, foodLoading, todayEntries, foodDbGet, logGet,
                 backendLog>>
  /\ UNCHANGED <<metricVars, scaleVars, authVars, logVars, dayVars>>

\* handleAddFood after its await threw: the request or its response failed
AddFoodReject(i) ==
  /\ i \in 1..Len(foodPosts)
  /\ foodPosts[i].st \in {"sent", "accepted"}
  /\ alert' = "Failed to add food"
  /\ foodPosts' = RemoveAt(foodPosts, i)
  /\ UNCHANGED <<foodDatabase, foodLoading, modalVisible, selectedFood,
                 grams, todayEntries, foodDbGet, logGet, backendLog>>
  /\ UNCHANGED <<metricVars, scaleVars, authVars, logVars, dayVars>>

NextFood ==
  \/ LoadFoodDatabaseResolve
  \/ LoadFoodDatabaseFail
  \/ BackendServeLog
  \/ LoadTodayLogResolve
  \/ LoadTodayLogFail
  \/ OpenModal
  \/ CloseModal
  \/ \E i \in 1..Len(FoodDB) : SelectFood(i)
  \/ \E text \in GramsInputs : SetGrams(text)
  \/ Back
  \/ HandleAddFood
  \/ \E i \in 1..Len(foodPosts) : BackendAcceptFoodPost(i)
  \/ \E i \in 1..Len(foodPosts) : AddFoodResolve(i)
  \/ \E i \in 1..Len(foodPosts) : AddFoodReject(i)

\* ------------------------------------------------------------------------
\* handleAddFood's computation (food.tsx 64-79) applied to chosen inputs
\* ------------------------------------------------------------------------
\* foods a backend may serve
ScaleFoods ==
  { FoodDB[1],
    [id |-> 2, name |-> "Apple",
     kcal_per_100g |-> Num(52, 1), proteins_per_100g |-> Num(3, 10),
     carbs_per_100g |-> Num(14, 1), fats_per_100g |-> Num(2, 10)],
    [id |-> 3, name |-> "Oats",
     kcal_per_100g |-> Num(389, 1), proteins_per_100g |-> Num(169, 10),
     carbs_per_100g |-> Num(663, 10), fats_per_100g |-> Num(69, 10)],
    [id |-> 4, name |-> "Water",
     kcal_per_100g |-> Zero, proteins_per_100g |-> Zero,
     carbs_per_100g |-> Zero, fats_per_100g |-> Zero] }

\* texts of the grams field
ScaleTexts ==
  GramsInputs \cup
  { <<"7">>, <<"2", ".", "5">>, <<"1", "0", "0">>, <<"3", "3">>,
    <<"1", "5", "0">>, <<"0", ".", "1">>, <<".", "5">>, <<"5", ".">>,
    <<"-", "5">>, <<"a">>, <<"5", "0", "g">>, <<"1", ".", "5", ".", "2">>,
    <<"-">>, <<".">> }

InitScale ==
  /\ scaleFood = Null
  /\ scaleGrams = <<>>
  /\ portion = Null

\* a food is selected and a text typed
PickInputs(food, text) ==
  /\ scaleFood' = food
  /\ scaleGrams' = text
  /\ portion' = Null
  /\ UNCHANGED <<foodVars, metricVars, authVars, logVars, dayVars>>

\* the validation and the entry of handleAddFood
ComputePortion ==
  /\ portion = Null
  /\ ~(scaleFood = Null \/ scaleGrams = <<>>)
  /\ portion' = BuildEntry(scaleFood, ParseFloat(scaleGrams))
  /\ UNCHANGED <<scaleFood, scaleGrams>>
  /\ UNCHANGED <<foodVars, metricVars, authVars, logVars, dayVars>>

NextScale ==
  \/ \E food \in ScaleFoods, text \in ScaleTexts : PickInputs(food, text)
  \/ ComputePortion

\* ------------------------------------------------------------------------
\* Profile screen: the BMI label
\* ------------------------------------------------------------------------
\* bmi values of the profiles GET /api/profile may return, in tenths
BMITenths == {-10, 0, 1, 100, 350, 400} \cup 170..310
BMIInputs == { Num(n, 10) : n \in BMITenths }

Profiles == { [bmi |-> b] : b \in BMIInputs }

\* getBMICategory with <= in place of < at the 25 threshold
getBMICategoryInclusive(bmi) ==
  IF Less(bmi, Num(185, 10)) THEN "Underweight"
  ELSE IF ~Less(Num(25, 1), bmi) /\ ~IsNaN(bmi) THEN "Normal"
  ELSE IF Less(bmi, Num(30, 1)) THEN "Overweight"
  ELSE "Obese"

\* getBMICategory with its thresholds tested from the largest down
getBMICategoryReversed(bmi) ==
  IF Less(bmi, Num(30, 1)) THEN "Overweight"
  ELSE IF Less(bmi, Num(25, 1)) THEN "Normal"
  ELSE IF Less(bmi, Num(185, 10)) THEN "Underweight"
  ELSE "Obese"

\* getBMICategory(bmi).text
getBMICategory(bmi) ==
  IF Less(bmi, Num(185, 10)) THEN "Underweight"
  ELSE IF Less(bmi, Num(25, 1)) THEN "Normal"
  ELSE IF Less(bmi, Num(30, 1)) THEN "Overweight"
  ELSE "Obese"

\* const bmiCategory = user ? getBMICategory(user.bmi) : null, as displayed
bmiCategory == IF user # Null THEN getBMICategory(user.bmi) ELSE "null"

\* setUser(response.data) of the auth context's fetchUserProfile
SetUser(profile) ==
  /\ user # profile
  /\ user' = profile
  /\ UNCHANGED <<waterData, waterLoading, waterGets, dashboardData,
                 dashLoading, refreshing, dashGets>>
  /\ UNCHANGED <<foodVars, scaleVars, authVars, logVars, dayVars>>

\* ------------------------------------------------------------------------
\* Water screen and dashboard: progress against the goal
\* ------------------------------------------------------------------------
\* consumed amounts and goals a backend response may carry
ConsumedInputs ==
  { Num(1500, 1), Num(2500, 1), Zero, Num(-100, 1), Num(333, 1) }
GoalInputs == { Num(2000, 1), Zero, Num(-2000, 1), Undefined }

\* bodies of GET /api/water-logs/{date}
WaterResponses ==
  { [total_intake |-> c, goal_ml |-> g] :
      c \in ConsumedInputs, g \in GoalInputs }

\* bodies of GET /api/dashboard/{date}
DashboardResponses ==
  { [user |-> [daily_calorie_target |-> t],
     food |-> [total_kcal |-> kc],
     water |-> [total_intake |-> c, goal_ml |-> g]] :
      t \in GoalInputs, kc \in ConsumedInputs \ {Zero},
      c \in ConsumedInputs \ {Zero}, g \in GoalInputs }

\* Water: const progress
progress ==
  IF waterData # Null /\ Truthy(waterData.goal_ml)
  THEN Mul(Div(waterData.total_intake, waterData.goal_ml), Hundred)
  ELSE Zero

\* Water: height of styles.waterLevel, in percent
waterLevel == MathMin(progress, Hundred)

\* the decimal digits of n >= 0
RECURSIVE DecimalText(_)
DecimalText(n) ==
  IF n < 10 THEN <<Digits[n + 1]>>
  ELSE Append(DecimalText(n \div 10), Digits[(n % 10) + 1])

\* x.toFixed(0) for |x| < 10^21: the integer nearest to |x|, the larger one
\* when two are as near, after the sign of a negative x
toFixed0(x) ==
  IF IsNaN(x) THEN <<"N", "a", "N">>
  ELSE IF x.k = "inf"
       THEN (IF x.s < 0 THEN <<"-">> ELSE <<>>)
            \o <<"I", "n", "f", "i", "n", "i", "t", "y">>
  ELSE LET a == Abs(x.m)
           d == Pow2(-x.e)
           n == IF x.e >= 0 THEN a * Pow2(x.e)
                ELSE (a \div d) + (IF 2 * (a % d) >= d THEN 1 ELSE 0)
       IN (IF x.m < 0 THEN <<"-">> ELSE <<>>) \o DecimalText(n)

\* waterPercentage with the clamped fill formatted in place of progress
waterPercentageClamped == toFixed0(waterLevel) \o <<"%">>

\* Water: the text of styles.waterPercentage
waterPercentage == toFixed0(progress) \o <<"%">>

\* calorieProgress with the quotient inverted
calorieProgressInverted ==
  IF dashboardData # Null /\ Truthy(dashboardData.user.daily_calorie_target)
  THEN Mul(Div(dashboardData.user.daily_calorie_target,
               dashboardData.food.total_kcal), Hundred)
  ELSE Zero

\* Dashboard: const calorieProgress
calorieProgress ==
  IF dashboardData # Null /\ Truthy(dashboardData.user.daily_calorie_target)
  THEN Mul(Div(dashboardData.food.total_kcal,
               dashboardData.user.daily_calorie_target), Hundred)
  ELSE Zero

\* Dashboard: const waterProgress
waterProgress ==
  IF dashboardData # Null /\ Truthy(dashboardData.water.goal_ml)
  THEN Mul(Div(dashboardData.water.total_intake,
               dashboardData.water.goal_ml), Hundred)
  ELSE Zero

\* Dashboard: width of the two styles.progressFill, in percent
calorieFill == MathMin(calorieProgress, Hundred)
waterFill == MathMin(waterProgress, Hundred)

InitMetrics ==
  /\ user = Null
  /\ waterData = Null
  /\ waterLoading = TRUE
  /\ waterGets = 1
  /\ dashboardData = Null
  /\ dashLoading = TRUE
  /\ refreshing = FALSE
  /\ dashGets = 1

\* loadWaterData after its GET resolved, then finally
LoadWaterDataResolve(data) ==
  /\ waterGets > 0
  /\ waterGets' = waterGets - 1
  /\ waterData' = data
  /\ waterLoading' = FALSE
  /\ UNCHANGED <<user, dashboardData, dashLoading, refreshing, dashGets>>
  /\ UNCHANGED <<foodVars, scaleVars, authVars, logVars, dayVars>>

\* loadWaterData after its GET was rejected, then finally
LoadWaterDataFail ==
  /\ waterGets > 0
  /\ waterGets' = waterGets - 1
  /\ waterLoading' = FALSE
  /\ UNCHANGED <<user, waterData, dashboardData, dashLoading, refreshing,
                 dashGets>>
  /\ UNCHANGED <<foodVars, scaleVars, authVars, logVars, dayVars>>

\* loadDashboardData after its GET resolved, then finally
LoadDashboardDataResolve(data) ==
  /\ dashGets > 0
  /\ dashGets' = dashGets - 1
  /\ dashboardData' = data
  /\ dashLoading' = FALSE
  /\ refreshing' = FALSE
  /\ UNCHANGED <<user, waterData, waterLoading, waterGets>>
  /\ UNCHANGED <<foodVars, scaleVars, authVars, logVars, dayVars>>

\* loadDashboardData after its GET was rejected, then finally
LoadDashboardDataFail ==
  /\ dashGets > 0
  /\ dashGets' = dashGets - 1
  /\ dashLoading' = FALSE
  /\ refreshing' = FALSE
  /\ UNCHANGED <<user, waterData, waterLoading, waterGets, dashboardData>>
  /\ UNCHANGED <<foodVars, scaleVars, authVars, logVars, dayVars>>

\* onRefresh of the dashboard's RefreshControl, rendered once loading is over
OnRefresh ==
  /\ ~dashLoading
  /\ dashGets < MaxRefresh
  /\ refreshing' = TRUE
  /\ dashGets' = dashGets + 1
  /\ UNCHANGED <<user, waterData, waterLoading, waterGets, dashboardData,
                 dashLoading>>
  /\ UNCHANGED <<foodVars, scaleVars, authVars, logVars, dayVars>>

NextProfile == \E profile \in Profiles : SetUser(profile)

NextMetrics ==
  \/ \E data \in WaterResponses : LoadWaterDataResolve(data)
  \/ LoadWaterDataFail
  \/ \E data \in DashboardResponses : LoadDashboardDataResolve(data)
  \/ LoadDashboardDataFail
  \/ OnRefresh

\* ------------------------------------------------------------------------
\* AuthProvider, AsyncStorage and the register screen
\* ------------------------------------------------------------------------
\* access tokens the backend issues, and the profile of a token's account
Token(v) == [k |-> "token", v |-> v]
Tokens == { Token("t1"), Token("t2") }
AccountProfiles ==
  [tok \in Tokens |->
     IF tok = Token("t1") THEN [bmi |-> Num(225, 10)]
                          ELSE [bmi |-> Num(275, 10)]]
ProfileOf(tok) == AccountProfiles[tok]

\* a call suspended at an await: op is the function the user or the provider
\* called, pc the await it is at, tok the token it carries; at an await of
\* AsyncStorage, turn is its place among the storage calls not yet returned
\* (1 the oldest), ran tells that the storage has carried it out and failed
\* that it did so with an error
AuthOp(op, pc, tok) ==
  [op |-> op, pc |-> pc, tok |-> tok, turn |-> 0, ran |-> FALSE,
   failed |-> FALSE]

\* AsyncStorage serves its calls one at a time in the order they were made
\* and returns them to JavaScript in that order
StorageCall(ops, op, pc, tok) ==
  [op |-> op, pc |-> pc, tok |-> tok,
   turn |-> 1 + Cardinality({ j \in 1..Len(ops) : ops[j].turn > 0 }),
   ran |-> FALSE, failed |-> FALSE]

\* the storage calls left after the oldest returned
Dequeue(ops) ==
  [j \in 1..Len(ops) |->
     IF ops[j].turn > 1 THEN [ops[j] EXCEPT !.turn = @ - 1] ELSE ops[j]]

restOfMetrics == <<waterData, waterLoading, waterGets, dashboardData,
                   dashLoading, refreshing, dashGets>>

\* the provider mounts and its effect calls loadStoredAuth; the register
\* screen is untouched
AuthStart(stored, shown) ==
  /\ token = Null
  /\ authLoading = TRUE
  /\ storage = stored
  /\ authOps = <<StorageCall(<<>>, "load", "getItem", Null)>>
  /\ regLoading = FALSE
  /\ regAlert = ""
  /\ route = shown

\* what runs when the call op returns to its caller: loadStoredAuth's
\* finally, or handleRegister after await register(); login, logout and
\* refreshUser have no caller in these sources
Returned(op) ==
  /\ authLoading' = IF op = "load" THEN FALSE ELSE authLoading
  /\ regLoading' = IF op = "register" THEN FALSE ELSE regLoading
  /\ route' = IF op = "register" THEN "dashboard" ELSE route
  /\ UNCHANGED regAlert

\* Threw without the finally of handleRegister
ThrewNoFinally(op, message) ==
  /\ regAlert' = IF op = "register" THEN message ELSE regAlert
  /\ UNCHANGED <<authLoading, regLoading, route>>

\* what runs when login or register throws: handleRegister's catch and
\* finally
Threw(op, message) ==
  /\ regAlert' = IF op = "register" THEN message ELSE regAlert
  /\ regLoading' = IF op = "register" THEN FALSE ELSE regLoading
  /\ UNCHANGED <<authLoading, route>>

\* AsyncStorage carries out the oldest call it has not carried out yet:
\* getItem reads the item, setItem writes it, removeItem removes it
StorageRuns(i) ==
  /\ i \in 1..Len(authOps)
  /\ authOps[i].turn > 0
  /\ ~authOps[i].ran
  /\ \A j \in 1..Len(authOps) :
       (authOps[j].turn > 0 /\ authOps[j].turn < authOps[i].turn)
         => authOps[j].ran
  /\ storage' = CASE authOps[i].pc = "getItem" -> storage
                  [] authOps[i].pc = "setItem" -> authOps[i].tok
                  [] authOps[i].pc = "removeItem" -> Null
  /\ authOps' = [authOps EXCEPT
                   ![i].ran = TRUE,
                   ![i].tok = IF authOps[i].pc = "getItem" THEN storage ELSE @]
  /\ UNCHANGED <<user, token, authLoading, regLoading, regAlert, route>>
  /\ UNCHANGED <<foodVars, restOfMetrics, scaleVars, logVars, dayVars>>

\* the storage call of authOps[i] has returned to JavaScript
StorageReturned(i) ==
  /\ i \in 1..Len(authOps)
  /\ authOps[i].turn = 1
  /\ authOps[i].ran
  /\ ~authOps[i].failed

\* the storage call of authOps[i] has come back to JavaScript as a rejection
StorageThrew(i) ==
  /\ i \in 1..Len(authOps)
  /\ authOps[i].turn = 1
  /\ authOps[i].ran
  /\ authOps[i].failed

\* loadStoredAuth after await AsyncStorage.getItem
GetItemResolve(i) ==
  /\ StorageReturned(i)
  /\ authOps[i].pc = "getItem"
  /\ LET storedToken == authOps[i].tok
     IN IF storedToken # Null
        THEN /\ token' = storedToken
             /\ authOps' = [Dequeue(authOps) EXCEPT
                              ![i] = AuthOp(@.op, "profile", storedToken)]
             /\ UNCHANGED <<authLoading, regLoading, regAlert, route>>
        ELSE /\ authOps' = RemoveAt(Dequeue(authOps), i)
             /\ Returned(authOps[i].op)
             /\ UNCHANGED token
  /\ UNCHANGED <<user, storage>>
  /\ UNCHANGED <<foodVars, restOfMetrics, scaleVars, logVars, dayVars>>

\* login(email, password) up to await axios.post
Login ==
  /\ Len(authOps) < MaxAuthOps
  /\ authOps' = Append(authOps, AuthOp("login", "post", Null))
  /\ UNCHANGED <<user, token, authLoading, storage, regLoading, regAlert,
                 route>>
  /\ UNCHANGED <<foodVars, restOfMetrics, scaleVars, logVars, dayVars>>

\* handleRegister: the Create Account button, disabled while loading
HandleRegister(filled) ==
  /\ route = "register"
  /\ ~regLoading
  /\ IF ~filled
     THEN /\ regAlert' = "Please fill in all fields"
          /\ UNCHANGED <<regLoading, authOps>>
     ELSE /\ Len(authOps) < MaxAuthOps
          /\ regLoading' = TRUE
          /\ authOps' = Append(authOps, AuthOp("register", "post", Null))
          /\ UNCHANGED regAlert
  /\ UNCHANGED <<user, token, authLoading, storage, route>>
  /\ UNCHANGED <<foodVars, restOfMetrics, scaleVars, logVars, dayVars>>

\* login or register after its POST resolved with access_token, up to
\* await AsyncStorage.setItem
AuthPostResolve(i, access_token) ==
  /\ i \in 1..Len(authOps)
  /\ authOps[i].pc = "post"
  /\ authOps' = [authOps EXCEPT
                   ![i] = StorageCall(authOps, @.op, "setItem", access_token)]
  /\ UNCHANGED <<user, token, authLoading, storage, regLoading, regAlert,
                 route>>
  /\ UNCHANGED <<foodVars, restOfMetrics, scaleVars, logVars, dayVars>>

\* login or register after its POST was rejected: the catch throws
AuthPostReject(i) ==
  /\ i \in 1..Len(authOps)
  /\ authOps[i].pc = "post"
  /\ authOps' = RemoveAt(authOps, i)
  /\ Threw(authOps[i].op, IF authOps[i].op = "register"
                           THEN "Registration failed" ELSE "Login failed")
  /\ UNCHANGED <<user, token, storage>>
  /\ UNCHANGED <<foodVars, restOfMetrics, scaleVars, logVars, dayVars>>

\* login or register after await AsyncStorage.setItem, up to the await of
\* fetchUserProfile's GET
SetItemResolve(i) ==
  /\ StorageReturned(i)
  /\ authOps[i].pc = "setItem"
  /\ token' = authOps[i].tok
  /\ authOps' = [Dequeue(authOps) EXCEPT
                   ![i] = AuthOp(@.op, "profile", @.tok)]
  /\ UNCHANGED <<user, storage, authLoading, regLoading, regAlert, route>>
  /\ UNCHANGED <<foodVars, restOfMetrics, scaleVars, logVars, dayVars>>

\* fetchUserProfile after its GET resolved; its caller then returns
FetchUserProfileResolve(i) ==
  /\ i \in 1..Len(authOps)
  /\ authOps[i].pc = "profile"
  /\ user' = ProfileOf(authOps[i].tok)
  /\ authOps' = RemoveAt(authOps, i)
  /\ Returned(authOps[i].op)
  /\ UNCHANGED <<token, storage>>
  /\ UNCHANGED <<foodVars, restOfMetrics, scaleVars, logVars, dayVars>>

\* fetchUserProfile after its GET was rejected: the catch calls logout, up
\* to await AsyncStorage.removeItem
FetchUserProfileReject(i) ==
  /\ i \in 1..Len(authOps)
  /\ authOps[i].pc = "profile"
  /\ authOps' = [authOps EXCEPT
                   ![i] = StorageCall(authOps, @.op, "removeItem", @.tok)]
  /\ UNCHANGED <<user, token, authLoading, storage, regLoading, regAlert,
                 route>>
  /\ UNCHANGED <<foodVars, restOfMetrics, scaleVars, logVars, dayVars>>

\* logout() up to await AsyncStorage.removeItem
Logout ==
  /\ Len(authOps) < MaxAuthOps
  /\ authOps' = Append(authOps,
                       StorageCall(authOps, "logout", "removeItem", Null))
  /\ UNCHANGED <<user, token, authLoading, storage, regLoading, regAlert,
                 route>>
  /\ UNCHANGED <<foodVars, restOfMetrics, scaleVars, logVars, dayVars>>

\* RemoveItemResolve without setToken(null)
RemoveItemResolveKeepsToken(i) ==
  /\ StorageReturned(i)
  /\ authOps[i].pc = "removeItem"
  /\ user' = Null
  /\ authOps' = RemoveAt(Dequeue(authOps), i)
  /\ Returned(authOps[i].op)
  /\ UNCHANGED <<token, storage>>
  /\ UNCHANGED <<foodVars, restOfMetrics, scaleVars, logVars, dayVars>>

\* logout after await AsyncStorage.removeItem; the call that ran it returns
RemoveItemResolve(i) ==
  /\ StorageReturned(i)
  /\ authOps[i].pc = "removeItem"
  /\ token' = Null
  /\ user' = Null
  /\ authOps' = RemoveAt(Dequeue(authOps), i)
  /\ Returned(authOps[i].op)
  /\ UNCHANGED storage
  /\ UNCHANGED <<foodVars, restOfMetrics, scaleVars, logVars, dayVars>>

\* refreshUser() with a token, up to the await of fetchUserProfile's GET
RefreshUser ==
  /\ token # Null
  /\ Len(authOps) < MaxAuthOps
  /\ authOps' = Append(authOps, AuthOp("refresh", "profile", token))
  /\ UNCHANGED <<user, token, authLoading, storage, regLoading, regAlert,
                 route>>
  /\ UNCHANGED <<foodVars, restOfMetrics, scaleVars, logVars, dayVars>>

\* AsyncStorage fails at the oldest call it has not carried out yet: the
\* item stays as it is
StorageFails(i) ==
  /\ i \in 1..Len(authOps)
  /\ authOps[i].turn > 0
  /\ ~authOps[i].ran
  /\ \A j \in 1..Len(authOps) :
       (authOps[j].turn > 0 /\ authOps[j].turn < authOps[i].turn)
         => authOps[j].ran
  /\ authOps' = [authOps EXCEPT ![i].ran = TRUE, ![i].failed = TRUE]
  /\ UNCHANGED <<user, token, authLoading, storage, regLoading, regAlert,
                 route>>
  /\ UNCHANGED <<foodVars, restOfMetrics, scaleVars, logVars, dayVars>>

\* GetItemReject without the finally of loadStoredAuth
GetItemRejectNoFinally(i) ==
  /\ StorageThrew(i)
  /\ authOps[i].pc = "getItem"
  /\ authOps' = RemoveAt(Dequeue(authOps), i)
  /\ UNCHANGED <<user, token, storage, authLoading, regLoading, regAlert,
                 route>>
  /\ UNCHANGED <<foodVars, restOfMetrics, scaleVars, logVars, dayVars>>

\* loadStoredAuth after await AsyncStorage.getItem threw: catch, then finally
GetItemReject(i) ==
  /\ StorageThrew(i)
  /\ authOps[i].pc = "getItem"
  /\ authOps' = RemoveAt(Dequeue(authOps), i)
  /\ Returned(authOps[i].op)
  /\ UNCHANGED <<user, token, storage>>
  /\ UNCHANGED <<foodVars, restOfMetrics, scaleVars, logVars, dayVars>>

\* login or register after await AsyncStorage.setItem threw: the catch throws
SetItemReject(i) ==
  /\ StorageThrew(i)
  /\ authOps[i].pc = "setItem"
  /\ authOps' = RemoveAt(Dequeue(authOps), i)
  /\ Threw(authOps[i].op, IF authOps[i].op = "register"
                           THEN "Registration failed" ELSE "Login failed")
  /\ UNCHANGED <<user, token, storage>>
  /\ UNCHANGED <<foodVars, restOfMetrics, scaleVars, logVars, dayVars>>

\* logout after await AsyncStorage.removeItem threw: logout rejects before
\* setToken(null), and with it the fetchUserProfile whose catch awaited it;
\* loadStoredAuth catches that and runs its finally, login and register
\* catch it and throw, refreshUser and a logout of the user reject
RemoveItemReject(i) ==
  /\ StorageThrew(i)
  /\ authOps[i].pc = "removeItem"
  /\ authOps' = RemoveAt(Dequeue(authOps), i)
  /\ IF authOps[i].op = "load"
     THEN Returned("load")
     ELSE Threw(authOps[i].op, IF authOps[i].op = "register"
                               THEN "Registration failed" ELSE "Login failed")
  /\ UNCHANGED <<user, token, storage>>
  /\ UNCHANGED <<foodVars, restOfMetrics, scaleVars, logVars, dayVars>>

NextAuth ==
  \/ \E i \in 1..Len(authOps) : StorageRuns(i)
  \/ \E i \in 1..Len(authOps) : GetItemResolve(i)
  \/ Login
  \/ \E filled \in BOOLEAN : HandleRegister(filled)
  \/ \E i \in 1..Len(authOps), t \in Tokens : AuthPostResolve(i, t)
  \/ \E i \in 1..Len(authOps) : AuthPostReject(i)
  \/ \E i \in 1..Len(authOps) : SetItemResolve(i)
  \/ \E i \in 1..Len(authOps) : FetchUserProfileResolve(i)
  \/ \E i \in 1..Len(authOps) : FetchUserProfileReject(i)
  \/ Logout
  \/ \E i \in 1..Len(authOps) : RemoveItemResolve(i)
  \/ RefreshUser

\* ------------------------------------------------------------------------
\* Water screen: addWater; Activity screen
\* ------------------------------------------------------------------------
LogStart ==
  /\ waterPosts = <<>>
  /\ waterAlert = ""
  /\ activities = <<>>
  /\ actLoading = TRUE
  /\ actModalVisible = FALSE
  /\ duration = <<>>
  /\ actGets = 1
  /\ actPosts = 0
  /\ actAlert = ""

\* the quick-add buttons
WATER_AMOUNTS == {100, 200, 250, 300, 500}

\* addWater(amount) up to its await: a quick-add button
AddWater(amount) ==
  /\ Len(waterPosts) + waterGets < MaxRequests
  /\ waterPosts' = Append(waterPosts, amount)
  /\ UNCHANGED <<waterAlert, activities, actLoading, actModalVisible,
                 duration, actGets, actPosts, actAlert>>
  /\ UNCHANGED <<foodVars, metricVars, scaleVars, authVars, dayVars>>

\* addWater after its POST resolved: loadWaterData() is called, not awaited
AddWaterResolve(i) ==
  /\ i \in 1..Len(waterPosts)
  /\ waterPosts' = RemoveAt(waterPosts, i)
  /\ waterGets' = waterGets + 1
  /\ UNCHANGED <<waterAlert, activities, actLoading, actModalVisible,
                 duration, actGets, actPosts, actAlert>>
  /\ UNCHANGED <<user, waterData, waterLoading, dashboardData, dashLoading,
                 refreshing, dashGets>>
  /\ UNCHANGED <<foodVars, scaleVars, authVars, dayVars>>

\* AddWaterReject sending the request again
AddWaterRejectResends(i) ==
  /\ i \in 1..Len(waterPosts)
  /\ waterAlert' = "Failed to add water intake"
  /\ UNCHANGED <<waterPosts, activities, actLoading, actModalVisible,
                 duration, actGets, actPosts, actAlert>>
  /\ UNCHANGED <<foodVars, metricVars, scaleVars, authVars, dayVars>>

\* addWater after its POST was rejected
AddWaterReject(i) ==
  /\ i \in 1..Len(waterPosts)
  /\ waterPosts' = RemoveAt(waterPosts, i)
  /\ waterAlert' = "Failed to add water intake"
  /\ UNCHANGED <<activities, actLoading, actModalVisible, duration, actGets,
                 actPosts, actAlert>>
  /\ UNCHANGED <<foodVars, metricVars, scaleVars, authVars, dayVars>>

NextWater ==
  \/ \E data \in WaterResponses : LoadWaterDataResolve(data)
  \/ LoadWaterDataFail
  \/ \E amount \in WATER_AMOUNTS : AddWater(amount)
  \/ \E i \in 1..Len(waterPosts) : AddWaterResolve(i)
  \/ \E i \in 1..Len(waterPosts) : AddWaterReject(i)

\* bodies of GET /api/activity-logs/{date}: the activities of the day
ActivityResponses == { <<>>, <<"walking">> }
\* texts of the duration field
DurationInputs == { <<>>, <<"3", "0">> }

\* loadActivities after its GET resolved, then finally
LoadActivitiesResolve(data) ==
  /\ actGets > 0
  /\ actGets' = actGets - 1
  /\ activities' = data
  /\ actLoading' = FALSE
  /\ UNCHANGED <<waterPosts, waterAlert, actModalVisible, duration, actPosts,
                 actAlert>>
  /\ UNCHANGED <<foodVars, metricVars, scaleVars, authVars, dayVars>>

\* loadActivities after its GET was rejected, then finally
LoadActivitiesFail ==
  /\ actGets > 0
  /\ actGets' = actGets - 1
  /\ actLoading' = FALSE
  /\ UNCHANGED <<waterPosts, waterAlert, activities, actModalVisible,
                 duration, actPosts, actAlert>>
  /\ UNCHANGED <<foodVars, metricVars, scaleVars, authVars, dayVars>>

\* the floating button and the modal's close button of the activity screen
SetActivityModalVisible(visible) ==
  /\ actModalVisible # visible
  /\ actModalVisible' = visible
  /\ UNCHANGED <<waterPosts, waterAlert, activities, actLoading, duration,
                 actGets, actPosts, actAlert>>
  /\ UNCHANGED <<foodVars, metricVars, scaleVars, authVars, dayVars>>

\* the duration field of the form
SetDuration(text) ==
  /\ actModalVisible
  /\ duration # text
  /\ duration' = text
  /\ UNCHANGED <<waterPosts, waterAlert, activities, actLoading,
                 actModalVisible, actGets, actPosts, actAlert>>
  /\ UNCHANGED <<foodVars, metricVars, scaleVars, authVars, dayVars>>

\* handleAddActivity up to its await: the submit button of the form
HandleAddActivity ==
  /\ actModalVisible
  /\ IF duration = <<>>
     THEN /\ actAlert' = "Please enter duration"
          /\ UNCHANGED actPosts
     ELSE /\ actPosts + actGets < MaxRequests
          /\ actPosts' = actPosts + 1
          /\ UNCHANGED actAlert
  /\ UNCHANGED <<waterPosts, waterAlert, activities, actLoading,
                 actModalVisible, duration, actGets>>
  /\ UNCHANGED <<foodVars, metricVars, scaleVars, authVars, dayVars>>

\* handleAddActivity after its POST resolved: loadActivities() is called,
\* not awaited
AddActivityResolve ==
  /\ actPosts > 0
  /\ actPosts' = actPosts - 1
  /\ actModalVisible' = FALSE
  /\ duration' = <<>>
  /\ actGets' = actGets + 1
  /\ actAlert' = "Activity logged!"
  /\ UNCHANGED <<waterPosts, waterAlert, activities, actLoading>>
  /\ UNCHANGED <<foodVars, metricVars, scaleVars, authVars, dayVars>>

\* handleAddActivity after its POST was rejected
AddActivityReject ==
  /\ actPosts > 0
  /\ actPosts' = actPosts - 1
  /\ actAlert' = "Failed to log activity"
  /\ UNCHANGED <<waterPosts, waterAlert, activities, actLoading,
                 actModalVisible, duration, actGets>>
  /\ UNCHANGED <<foodVars, metricVars, scaleVars, authVars, dayVars>>

NextActivity ==
  \/ \E data \in ActivityResponses : LoadActivitiesResolve(data)
  \/ LoadActivitiesFail
  \/ \E visible \in BOOLEAN : SetActivityModalVisible(visible)
  \/ \E text \in DurationInputs : SetDuration(text)
  \/ HandleAddActivity
  \/ AddActivityResolve
  \/ AddActivityReject

\* ------------------------------------------------------------------------
\* Water screen: the day's log on the backend and the entry list
\* ------------------------------------------------------------------------
\* the screen mounts on a day for which the backend holds the entries log
DayStart(log) ==
  /\ waterLog = log
  /\ waterReplies = <<>>
  /\ waterShown = <<>>
  /\ waterReturned = <<>>
  /\ waterGetFailed = FALSE

\* logs of the date when the screen mounts, and the quick-add buttons used
StoredLogs == { <<>>, <<250, 500>> }
QuickAdds == {250, 500}

\* Array.prototype.reverse
Reverse(s) == [j \in 1..Len(s) |-> s[Len(s) + 1 - j]]

\* the list is rendered when waterData?.entries has an element
ListRendered(data) == data # Null /\ Len(data.entries) > 0

\* the entry cards a render of Water produces from waterData
EntriesShown(data) ==
  IF ListRendered(data) THEN Reverse(data.entries) ELSE <<>>

\* waterData after that render: entries.reverse() reverses the array held in
\* the state in place
AfterRender(data) ==
  IF ListRendered(data) THEN [data EXCEPT !.entries = Reverse(@)] ELSE data

\* a quick-add button, while the day's log has room
LogWater(amount) ==
  /\ Len(waterLog) + Len(waterPosts) < MaxEntries
  /\ AddWater(amount)

\* the backend stores the entry of POST i and answers; addWater resumes and
\* calls loadWaterData(), not awaited
AddWaterStored(i) ==
  /\ i \in 1..Len(waterPosts)
  /\ waterLog' = Append(waterLog, waterPosts[i])
  /\ waterPosts' = RemoveAt(waterPosts, i)
  /\ waterGets' = waterGets + 1
  /\ UNCHANGED <<waterReplies, waterShown, waterReturned, waterGetFailed>>
  /\ UNCHANGED <<waterAlert, activities, actLoading, actModalVisible,
                 duration, actGets, actPosts, actAlert>>
  /\ UNCHANGED <<user, waterData, waterLoading, dashboardData, dashLoading,
                 refreshing, dashGets>>
  /\ UNCHANGED <<foodVars, scaleVars, authVars>>

\* the backend answers one of the GETs /api/water-logs/{date} in flight with
\* the log it holds
BackendServesWater ==
  /\ Len(waterReplies) < waterGets
  /\ waterReplies' = Append(waterReplies, [entries |-> waterLog])
  /\ UNCHANGED <<waterLog, waterShown, waterReturned, waterGetFailed>>
  /\ UNCHANGED <<foodVars, metricVars, scaleVars, authVars, logVars>>

\* loadWaterData after its GET resolved with reply j, then finally, and the
\* render the new state causes
LoadWaterLogResolve(j) ==
  /\ j \in 1..Len(waterReplies)
  /\ waterGets' = waterGets - 1
  /\ waterReplies' = RemoveAt(waterReplies, j)
  /\ waterReturned' = waterReplies[j].entries
  /\ waterData' = AfterRender(waterReplies[j])
  /\ waterShown' = EntriesShown(waterReplies[j])
  /\ waterLoading' = FALSE
  /\ UNCHANGED <<waterLog, waterGetFailed>>
  /\ UNCHANGED <<user, dashboardData, dashLoading, refreshing, dashGets>>
  /\ UNCHANGED <<foodVars, scaleVars, authVars, logVars>>

\* loadWaterData after its GET was rejected, the request (j = 0) or reply j
\* lost, then finally; a render follows when loading changed
LoadWaterLogFail(j) ==
  /\ j \in 0..Len(waterReplies)
  /\ j = 0 => Len(waterReplies) < waterGets
  /\ waterGets' = waterGets - 1
  /\ waterReplies' = IF j = 0 THEN waterReplies ELSE RemoveAt(waterReplies, j)
  /\ waterLoading' = FALSE
  /\ waterData' = IF waterLoading THEN AfterRender(waterData) ELSE waterData
  /\ waterShown' = IF waterLoading THEN EntriesShown(waterData)
                                  ELSE waterShown
  /\ waterGetFailed' = TRUE
  /\ UNCHANGED <<waterLog, waterReturned>>
  /\ UNCHANGED <<user, dashboardData, dashLoading, refreshing, dashGets>>
  /\ UNCHANGED <<foodVars, scaleVars, authVars, logVars>>

\* Water renders again with its state as it is: the value of useAuth()
\* changed
RerenderWater ==
  /\ waterData' = AfterRender(waterData)
  /\ waterShown' = EntriesShown(waterData)
  /\ UNCHANGED <<waterLog, waterReplies, waterReturned, waterGetFailed>>
  /\ UNCHANGED <<user, waterLoading, waterGets, dashboardData, dashLoading,
                 refreshing, dashGets>>
  /\ UNCHANGED <<foodVars, scaleVars, authVars, logVars>>

NextWaterLog ==
  \/ \E amount \in QuickAdds : LogWater(amount)
  \/ \E i \in 1..Len(waterPosts) : AddWaterStored(i)
  \/ \E i \in 1..Len(waterPosts) : AddWaterReject(i)
  \/ BackendServesWater
  \/ \E j \in 1..Len(waterReplies) : LoadWaterLogResolve(j)
  \/ \E j \in 0..Len(waterReplies) : LoadWaterLogFail(j)
  \/ RerenderWater

\* ------------------------------------------------------------------------
\* Specifications
\* ------------------------------------------------------------------------
\* the food screen
Init ==
  /\ InitFood /\ InitMetrics /\ InitScale
  /\ AuthStart(Null, "food") /\ LogStart /\ DayStart(<<>>)
SpecFood == Init /\ [][NextFood]_vars

\* the same start with no food log on the backend
InitNoLog ==
  /\ FoodStart(Null) /\ InitMetrics /\ InitScale
  /\ AuthStart(Null, "dashboard") /\ LogStart /\ DayStart(<<>>)

\* the profile screen
SpecProfile == InitNoLog /\ [][NextProfile]_vars

\* the water screen and the dashboard
SpecMetrics == InitNoLog /\ [][NextMetrics]_vars

\* the entry computation
SpecScale == InitNoLog /\ [][NextScale]_vars

\* the auth provider with the register screen, started with or without a
\* token left in storage by an earlier session
InitAuth ==
  /\ FoodStart(Null) /\ InitMetrics /\ InitScale /\ LogStart
  /\ DayStart(<<>>)
  /\ \E stored \in {Null, Token("t1")} : AuthStart(stored, "register")
SpecAuth == InitAuth /\ [][NextAuth]_vars

\* the auth provider with a storage whose calls can fail
NextSession ==
  \/ NextAuth
  \/ \E i \in 1..Len(authOps) : StorageFails(i)
  \/ \E i \in 1..Len(authOps) : GetItemReject(i)
  \/ \E i \in 1..Len(authOps) : SetItemReject(i)
  \/ \E i \in 1..Len(authOps) : RemoveItemReject(i)
SpecSession == InitAuth /\ [][NextSession]_vars

\* the register screen over the provider, and the calls that can follow it
\* on the tabs; login() is called from another screen
NextRegister ==
  \/ \E filled \in BOOLEAN : HandleRegister(filled)
  \/ \E i \in 1..Len(authOps) : StorageRuns(i)
  \/ \E i \in 1..Len(authOps) : StorageFails(i)
  \/ \E i \in 1..Len(authOps) : GetItemResolve(i)
  \/ \E i \in 1..Len(authOps) : GetItemReject(i)
  \/ \E i \in 1..Len(authOps), t \in Tokens : AuthPostResolve(i, t)
  \/ \E i \in 1..Len(authOps) : AuthPostReject(i)
  \/ \E i \in 1..Len(authOps) : SetItemResolve(i)
  \/ \E i \in 1..Len(authOps) : SetItemReject(i)
  \/ \E i \in 1..Len(authOps) : FetchUserProfileResolve(i)
  \/ \E i \in 1..Len(authOps) : FetchUserProfileReject(i)
  \/ Logout
  \/ \E i \in 1..Len(authOps) : RemoveItemResolve(i)
  \/ \E i \in 1..Len(authOps) : RemoveItemReject(i)
  \/ RefreshUser
SpecRegister == InitAuth /\ [][NextRegister]_vars

\* the provider alone, from its mount: loadStoredAuth with the calls its
\* consumers can make meanwhile
NextLoad ==
  \/ \E i \in 1..Len(authOps) : StorageRuns(i)
  \/ \E i \in 1..Len(authOps) : StorageFails(i)
  \/ \E i \in 1..Len(authOps) : GetItemResolve(i)
  \/ \E i \in 1..Len(authOps) : GetItemReject(i)
  \/ Login
  \/ \E i \in 1..Len(authOps), t \in Tokens : AuthPostResolve(i, t)
  \/ \E i \in 1..Len(authOps) : AuthPostReject(i)
  \/ \E i \in 1..Len(authOps) : SetItemResolve(i)
  \/ \E i \in 1..Len(authOps) : SetItemReject(i)
  \/ \E i \in 1..Len(authOps) : FetchUserProfileResolve(i)
  \/ \E i \in 1..Len(authOps) : FetchUserProfileReject(i)
  \/ Logout
  \/ \E i \in 1..Len(authOps) : RemoveItemResolve(i)
  \/ \E i \in 1..Len(authOps) : RemoveItemReject(i)
  \/ RefreshUser

\* the await of call i settles: the storage carries its call out or fails
\* at it, the call comes back, or its request is answered
Settles(i) ==
  \/ StorageRuns(i)
  \/ StorageFails(i)
  \/ GetItemResolve(i)
  \/ GetItemReject(i)
  \/ SetItemResolve(i)
  \/ SetItemReject(i)
  \/ RemoveItemResolve(i)
  \/ RemoveItemReject(i)
  \/ FetchUserProfileResolve(i)
  \/ FetchUserProfileReject(i)
  \/ \E t \in Tokens : AuthPostResolve(i, t)
  \/ AuthPostReject(i)

\* the same, every awaited call settling in the end
FairLoad ==
  /\ InitAuth
  /\ [][NextLoad]_vars
  /\ \A i \in 1..MaxAuthOps : WF_vars(Settles(i))

\* the water screen with the backend's log of the day
InitWaterLog ==
  /\ FoodStart(Null) /\ InitMetrics /\ InitScale /\ LogStart
  /\ AuthStart(Null, "water")
  /\ \E log \in StoredLogs : DayStart(log)
SpecWaterLog == InitWaterLog /\ [][NextWaterLog]_vars

\* the parts of the app that POST on a user action, one part per run: the
\* handlers of a tab run while the router shows it, the provider's calls
\* while it shows the login or register screen or the dashboard that
\* replaces it
PostScreens == {"food", "water", "activity", "login", "register"}
AuthScreens == {"login", "register", "dashboard"}
InitPosts ==
  /\ InitFood /\ InitMetrics /\ InitScale /\ LogStart /\ DayStart(<<>>)
  /\ \E shown \in PostScreens : AuthStart(Null, shown)
NextPosts ==
  \/ route = "food" /\ NextFood
  \/ route = "water" /\ NextWater
  \/ route = "activity" /\ NextActivity
  \/ route = "login" /\ Login
  \/ \E filled \in BOOLEAN : HandleRegister(filled)
  \/ route \in AuthScreens /\ \E i \in 1..Len(authOps) : StorageRuns(i)
  \/ route \in AuthScreens /\ \E i \in 1..Len(authOps) : GetItemResolve(i)
  \/ route \in AuthScreens /\
       \E i \in 1..Len(authOps), t \in Tokens : AuthPostResolve(i, t)
  \/ route \in AuthScreens /\ \E i \in 1..Len(authOps) : AuthPostReject(i)
  \/ route \in AuthScreens /\ \E i \in 1..Len(authOps) : SetItemResolve(i)
  \/ route \in AuthScreens /\
       \E i \in 1..Len(authOps) : FetchUserProfileResolve(i)
  \/ route \in AuthScreens /\
       \E i \in 1..Len(authOps) : FetchUserProfileReject(i)
  \/ route \in AuthScreens /\
       \E i \in 1..Len(authOps) : RemoveItemResolve(i)
SpecPosts == InitPosts /\ [][NextPosts]_vars

\* ------------------------------------------------------------------------
\* Properties
\* ------------------------------------------------------------------------
IsNumber(x) == x.k \in {"fin", "inf"}
IsPositive(x) == IsNumber(x) /\ Sign(x) > 0
NutrientFields == {"kcal", "proteins", "carbs", "fats"}
Per100g(food, f) ==
  CASE f = "kcal" -> food.kcal_per_100g
    [] f = "proteins" -> food.proteins_per_100g
    [] f = "carbs" -> food.carbs_per_100g
    [] f = "fats" -> food.fats_per_100g

\* C1: for a food with numeric per-100g fields and grams > 0, the entry
\* built by handleAddFood has each of kcal, proteins, carbs and fats equal
\* to the per-100g field times grams / 100, and food_name and grams copied;
\* 200 kcal per 100 g at 50 g gives kcal = 100.
C1_LinearScaling ==
  (portion # Null /\ IsPositive(ParseFloat(scaleGrams))) =>
    LET g == ParseFloat(scaleGrams)
    IN /\ \A f \in NutrientFields :
            portion[f] = Mul(Per100g(scaleFood, f), Div(g, Hundred))
       /\ portion.food_name = scaleFood.name
       /\ portion.grams = g
       /\ (scaleFood.kcal_per_100g = Num(200, 1) /\ g = Num(50, 1))
            => portion.kcal = Num(100, 1)

C1_Witness ==
  /\ portion # Null
  /\ scaleFood.kcal_per_100g = Num(200, 1)
  /\ scaleGrams = <<"5", "0">>
  /\ portion.kcal = Num(100, 1)
  /\ portion.grams = Num(50, 1)

\* C8 as stated: for grams > 0 and every factor k > 0, each nutrient of the
\* entry for k * grams is k times the nutrient of the entry for grams.
Factors == { Num(2, 1), Num(3, 1), Num(4, 1), Num(1, 2), Num(3, 2), Num(10, 1) }
HomogeneousFor(k) ==
  LET g == ParseFloat(scaleGrams)
      scaled == BuildEntry(scaleFood, Mul(k, g))
  IN \A f \in NutrientFields : scaled[f] = Mul(k, portion[f])

C8_HomogeneousEveryFactor ==
  (portion # Null /\ IsPositive(ParseFloat(scaleGrams))) =>
    \A k \in Factors : HomogeneousFor(k)

\* C8 amended: for grams > 0 and every factor k that is a power of two, each
\* nutrient of the entry for k * grams is k times the nutrient of the entry
\* for grams (other factors agree only up to the rounding of the products).
PowerOfTwoFactors == { Num(2, 1), Num(4, 1), Num(8, 1), Num(1, 2), Num(1, 4) }
C8_HomogeneousPowerOfTwo ==
  (portion # Null /\ IsPositive(ParseFloat(scaleGrams))) =>
    \A k \in PowerOfTwoFactors : HomogeneousFor(k)

C8_Witness ==
  /\ portion # Null
  /\ IsPositive(ParseFloat(scaleGrams))
  /\ IsPositive(portion.kcal)
  /\ HomogeneousFor(Num(2, 1))
  /\ ~HomogeneousFor(Num(3, 1))

\* C3 as stated: handleAddFood sends no POST and builds no entry when the
\* grams text parses to a value <= 0 or to no number.
InvalidGrams(g) == ~IsPositive(g)
C3_InvalidGramsRejected ==
  /\ \A i \in 1..Len(foodPosts) : ~InvalidGrams(ParseFloat(foodPosts[i].grams))
  /\ \A i \in 1..Len(todayEntries) : ~InvalidGrams(todayEntries[i].grams)

\* C10 as stated: every entry of todayEntries and of every POSTed payload
\* has grams > 0 and nutrient fields that are numbers.
ValidEntry(e) ==
  /\ IsPositive(e.grams)
  /\ \A f \in NutrientFields : IsNumber(e[f])
ValidEntries(entries) == \A i \in 1..Len(entries) : ValidEntry(entries[i])
C10_EntriesValid ==
  /\ ValidEntries(todayEntries)
  /\ \A i \in 1..Len(foodPosts) : ValidEntries(foodPosts[i].newEntries)
  /\ backendLog # Null => ValidEntries(backendLog.entries)

\* C2: getBMICategory gives Underweight below 18.5, Normal from 18.5 to
\* below 25, Overweight from 25 to below 30 and Obese from 30 up; 24.9 and
\* 18.5 are Normal, 25.0 is Overweight, 30 is Obese.
C2_BMIThresholds ==
  user # Null =>
    LET b == user.bmi
    IN /\ Less(b, Num(185, 10)) => bmiCategory = "Underweight"
       /\ (~Less(b, Num(185, 10)) /\ Less(b, Num(25, 1)))
            => bmiCategory = "Normal"
       /\ (~Less(b, Num(25, 1)) /\ Less(b, Num(30, 1)))
            => bmiCategory = "Overweight"
       /\ ~Less(b, Num(30, 1)) => bmiCategory = "Obese"
       /\ b \in {Num(249, 10), Num(185, 10)} => bmiCategory = "Normal"
       /\ b = Num(25, 1) => bmiCategory = "Overweight"
       /\ b = Num(30, 1) => bmiCategory = "Obese"

C2_Witness ==
  /\ user # Null
  /\ user.bmi = Num(25, 1)
  /\ bmiCategory = "Overweight"

\* C4 as stated: for a bmi <= 0 no category label is returned or displayed.
BMILabels == {"Underweight", "Normal", "Overweight", "Obese"}
C4_NonPositiveBMIUnlabelled ==
  (user # Null /\ ~IsPositive(user.bmi)) => bmiCategory \notin BMILabels

\* C9: every bmi > 0 gets one of the four labels, all four labels are
\* attained, and the bmi values of a label form one interval: a bmi between
\* two values of the same label has that label.
PositiveBMIs == { b \in BMIInputs : IsPositive(b) }
LabelOf == [b \in PositiveBMIs |-> getBMICategory(b)]
C9_BMIPartition ==
  /\ \A l \in BMILabels : \E b \in PositiveBMIs : LabelOf[b] = l
  /\ (user # Null /\ IsPositive(user.bmi)) =>
       /\ bmiCategory \in BMILabels
       /\ \A lo \in PositiveBMIs, hi \in PositiveBMIs :
            (/\ Less(lo, user.bmi) /\ Less(user.bmi, hi)
             /\ LabelOf[lo] = LabelOf[hi])
              => bmiCategory = LabelOf[lo]

C9_Witness ==
  /\ user # Null
  /\ user.bmi = Num(275, 10)
  /\ bmiCategory = "Overweight"
  /\ getBMICategory(Num(25, 1)) = getBMICategory(Num(299, 10))

\* the three progress computations of the current state
ProgressCases ==
  (IF waterData = Null THEN {}
   ELSE {[consumed |-> waterData.total_intake, goal |-> waterData.goal_ml,
          raw |-> progress, fill |-> waterLevel]})
  \cup
  (IF dashboardData = Null THEN {}
   ELSE {[consumed |-> dashboardData.food.total_kcal,
          goal |-> dashboardData.user.daily_calorie_target,
          raw |-> calorieProgress, fill |-> calorieFill],
         [consumed |-> dashboardData.water.total_intake,
          goal |-> dashboardData.water.goal_ml,
          raw |-> waterProgress, fill |-> waterFill]})

\* C5: for goal > 0 the water screen and the dashboard compute
\* raw = consumed / goal * 100 and fill = min(raw, 100); (1500, 2000) gives
\* 75 and 75, (2500, 2000) gives 125 and 100.
C5_ProgressRatio ==
  \A c \in ProgressCases :
    IsPositive(c.goal) =>
      /\ c.raw = Mul(Div(c.consumed, c.goal), Hundred)
      /\ c.fill = (IF Less(Hundred, c.raw) THEN Hundred ELSE c.raw)
      /\ (c.consumed = Num(1500, 1) /\ c.goal = Num(2000, 1))
           => (c.raw = Num(75, 1) /\ c.fill = Num(75, 1))
      /\ (c.consumed = Num(2500, 1) /\ c.goal = Num(2000, 1))
           => (c.raw = Num(125, 1) /\ c.fill = Num(100, 1))

C5_Witness ==
  /\ waterData # Null
  /\ waterData.total_intake = Num(2500, 1)
  /\ waterData.goal_ml = Num(2000, 1)
  /\ progress = Num(125, 1)
  /\ waterLevel = Num(100, 1)
  /\ dashboardData # Null
  /\ dashboardData.food.total_kcal = Num(1500, 1)
  /\ dashboardData.user.daily_calorie_target = Num(2000, 1)
  /\ calorieProgress = Num(75, 1)
  /\ calorieFill = Num(75, 1)

\* C6 as stated: for a goal that is zero, negative or missing, raw and fill
\* are both 0 whatever was consumed.
C6_NonPositiveGoalIsZero ==
  \A c \in ProgressCases :
    ~IsPositive(c.goal) => (c.raw = Zero /\ c.fill = Zero)

\* C7 as stated: the percentage used for the water level and for the two
\* dashboard bars lies in [0, 100].
C7_FillWithinRange ==
  \A c \in ProgressCases :
    /\ IsNumber(c.fill)
    /\ ~Less(c.fill, Zero)
    /\ ~Less(Hundred, c.fill)

\* the steps of an add-food operation: the handler up to its POST, the
\* backend's acceptance, and the handler's continuation
AddFoodResolves == \E i \in 1..Len(foodPosts) : AddFoodResolve(i)
AddFoodStep ==
  \/ HandleAddFood
  \/ \E i \in 1..Len(foodPosts) : BackendAcceptFoodPost(i)
  \/ AddFoodResolves
  \/ \E i \in 1..Len(foodPosts) : AddFoodReject(i)

IsPrefix(s, t) == Len(s) <= Len(t) /\ SubSeq(t, 1, Len(s)) = s

\* C11 as stated: across add-food operations every entry of todayEntries
\* keeps its position and its fields, and a successful add changes the list
\* only by appending exactly one entry at its end.
C11_EntriesOnlyAppended ==
  [][ AddFoodStep =>
        /\ IsPrefix(todayEntries, todayEntries')
        /\ AddFoodResolves => Len(todayEntries') = Len(todayEntries) + 1
        /\ ~AddFoodResolves => todayEntries' = todayEntries ]_vars

\* the number of occurrences of e in the sequence s
Count(s, e) == Cardinality({ j \in 1..Len(s) : s[j] = e })
\* every entry of es occurs in s at least as often as in es
ContainsAll(s, es) ==
  \A j \in 1..Len(es) : Count(s, es[j]) >= Count(es, es[j])

\* C12 as stated: when an add-food call resumes after a successful POST and
\* another call, started before this one's POST completed, has succeeded
\* meanwhile, the client's entry list and the backend's log hold the new
\* entries of both calls: no update is lost.
C12_OverlappingAddsKept ==
  [][ \A i \in 1..Len(foodPosts) :
        (AddFoodResolve(i) /\ foodPosts[i].during # <<>>) =>
          LET both == Append(foodPosts[i].during, foodPosts[i].entry)
          IN /\ ContainsAll(todayEntries', both)
             /\ backendLog' # Null
             /\ ContainsAll(backendLog'.entries, both) ]_vars

\* the two ways an add-food attempt fails
ValidationFails == (selectedFood = Null \/ grams = <<>>) /\ HandleAddFood
PostFails == \E i \in 1..Len(foodPosts) : AddFoodReject(i)
ErrorAlerts == {"Please enter the amount in grams", "Failed to add food"}

\* C14: a step in which an add-food attempt fails, at validation or at a
\* rejected POST, shows an error alert, not the success alert, and leaves
\* todayEntries, modalVisible, selectedFood and grams as they were.
C14_FailedAddLeavesState ==
  [][ (ValidationFails \/ PostFails) =>
        /\ alert' \in ErrorAlerts
        /\ alert' # "Food added to log!"
        /\ UNCHANGED <<todayEntries, modalVisible, selectedFood, grams>>
    ]_vars

\* a POST was rejected with the form filled in and an entry in the list:
\* the form and the list are still there
C14_Witness ==
  /\ alert = "Failed to add food"
  /\ foodPosts = <<>>
  /\ modalVisible
  /\ selectedFood # Null
  /\ grams = <<"5", "0">>
  /\ todayEntries # <<>>

\* the POSTs in flight: of the food, water and activity screens and of
\* login and register
AuthPosts == { i \in 1..Len(authOps) : authOps[i].pc = "post" }
PostsInFlight ==
  Len(foodPosts) + Len(waterPosts) + actPosts + Cardinality(AuthPosts)

\* the user actions that POST, and the steps handling a failed POST
UserAction ==
  \/ HandleAddFood
  \/ \E amount \in WATER_AMOUNTS : AddWater(amount)
  \/ HandleAddActivity
  \/ Login
  \/ \E filled \in BOOLEAN : HandleRegister(filled)
PostFailed ==
  \/ \E i \in 1..Len(foodPosts) : AddFoodReject(i)
  \/ \E i \in 1..Len(waterPosts) : AddWaterReject(i)
  \/ AddActivityReject
  \/ \E i \in 1..Len(authOps) : AuthPostReject(i)

\* C15: a step issues at most one POST, only an add-food, add-water,
\* add-activity, login or register action issues one, and the step that
\* handles a failed POST issues none: the failed request is gone and nothing
\* replaces it.
C15_NoRetries ==
  [][ /\ PostsInFlight' <= PostsInFlight + 1
      /\ PostsInFlight' > PostsInFlight => UserAction
      /\ PostFailed => PostsInFlight' = PostsInFlight - 1 ]_vars

\* a POST of the water screen failed and nothing is in flight after it
C15_Witness ==
  /\ route = "water"
  /\ waterAlert = "Failed to add water intake"
  /\ waterPosts = <<>>
  /\ waterGets = 0

\* the number a percentage text shows: its digits before the % sign, with
\* the sign
ShownPercent(text) ==
  LET neg == text[1] = "-"
      i0 == IF neg THEN 2 ELSE 1
      n == DigitsValue(text, i0, Len(text), 0)
  IN IF neg THEN -n ELSE n

\* 2 * |shown - x| <= 1 for a finite x = m * 2^e: shown is an integer
\* nearest to x
NearestInteger(shown, x) ==
  IF x.e >= 0 THEN shown = x.m * Pow2(x.e)
  ELSE 2 * Abs(shown * Pow2(-x.e) - x.m) <= Pow2(-x.e)

\* C16: the water screen's percentage text is the raw percent rounded to 0
\* decimals, followed by %, also when the raw percent exceeds 100, and the
\* bottle's fill is min(raw, 100); consumed 2500 of goal 2000 shows 125%
\* with a fill of 100.
C16_PercentTextUnclamped ==
  (waterData # Null /\ IsFin(progress)) =>
    /\ waterPercentage[Len(waterPercentage)] = "%"
    /\ NearestInteger(ShownPercent(waterPercentage), progress)
    /\ waterLevel = (IF Less(Hundred, progress) THEN Hundred ELSE progress)
    /\ (waterData.total_intake = Num(2500, 1)
        /\ waterData.goal_ml = Num(2000, 1))
         => (waterPercentage = <<"1", "2", "5", "%">> /\ waterLevel = Hundred)

\* 2500 of 2000 is loaded: the text is above 100, the fill is not
C16_Witness ==
  /\ waterData # Null
  /\ waterData.total_intake = Num(2500, 1)
  /\ waterData.goal_ml = Num(2000, 1)
  /\ waterPercentage = <<"1", "2", "5", "%">>
  /\ waterLevel = Hundred

\* C17 as stated: in every reachable state of the AuthProvider a user that
\* is not null comes with a token that is not null.
C17_UserImpliesToken == user # Null => token # Null

\* the steps in which login() or register() returns without throwing: the
\* end of fetchUserProfile, by its try or by the logout of its catch
LoginResolves(i) ==
  /\ i \in 1..Len(authOps)
  /\ authOps[i].op \in {"login", "register"}
  /\ FetchUserProfileResolve(i) \/ RemoveItemResolve(i)

\* C18 as stated: when login() or register() resolves without throwing,
\* token is the access_token the backend returned, the same token is stored
\* under 'auth_token' and user is the fetched profile; the register screen
\* then navigates to the dashboard with that session.
C18_ResolvedMeansAuthenticated ==
  [][ \A i \in 1..Len(authOps) :
        LoginResolves(i) =>
          /\ token' = authOps[i].tok
          /\ storage' = authOps[i].tok
          /\ user' = ProfileOf(authOps[i].tok)
          /\ (route' = "dashboard" /\ route # "dashboard")
               => (token' # Null /\ user' # Null) ]_vars

BackendEntries == IF backendLog = Null THEN <<>> ELSE backendLog.entries

\* C20 as stated: the entries payload of every POST /api/food-logs holds
\* every entry the backend holds for the date when it stores the payload,
\* plus exactly the one new entry.
C20_PayloadKeepsBackendEntries ==
  [][ \A i \in 1..Len(foodPosts) :
        BackendAcceptFoodPost(i) =>
          /\ ContainsAll(foodPosts[i].newEntries, BackendEntries)
          /\ Len(foodPosts[i].newEntries) = Len(BackendEntries) + 1
          /\ foodPosts[i].newEntries[Len(BackendEntries) + 1]
               = foodPosts[i].entry ]_vars


\* ------------------------------------------------------------------------
\* C21: the provider's loading flag
\* ------------------------------------------------------------------------
\* C21: after the provider mounts loading is true; it becomes false in every
\* outcome of loadStoredAuth when every awaited call settles, and once false
\* it is never true again
C21_LoadingEndsForGood ==
  /\ authLoading = TRUE
  /\ <>(authLoading = FALSE)
  /\ [][~authLoading => ~authLoading']_vars

\* AsyncStorage.getItem failed with a token stored: loadStoredAuth is over,
\* nothing was restored and loading is false
C21_Witness ==
  /\ authLoading = FALSE
  /\ authOps = <<>>
  /\ storage # Null
  /\ token = Null
  /\ user = Null


\* ------------------------------------------------------------------------
\* C22: a failed profile fetch
\* ------------------------------------------------------------------------
\* fetchUserProfile finishes handling the rejection of its GET: the logout
\* its catch awaited is done (call i is not a logout of the user)
FailedFetchHandled(i) ==
  /\ authOps[i].op # "logout"
  /\ RemoveItemResolve(i)

\* C22: when the failure of a profile fetch has been handled, token and user
\* are null and no token is stored; refreshUser with a null token sends no
\* request
C22_FailedFetchEndsSession ==
  [][ /\ \A i \in 1..Len(authOps) :
           FailedFetchHandled(i)
             => (token' = Null /\ user' = Null /\ storage' = Null)
      /\ token = Null => ~RefreshUser ]_vars


\* ------------------------------------------------------------------------
\* C23: the water data once the requests are over
\* ------------------------------------------------------------------------
\* the same entries, whatever their order
SameEntries(s, t) ==
  /\ Len(s) = Len(t)
  /\ \A e \in QuickAdds : Count(s, e) = Count(t, e)

\* a response is stored in waterData
WaterDataStored == \E j \in 1..Len(waterReplies) : LoadWaterLogResolve(j)

\* C23: when a response is stored in waterData, no water request is left
\* in flight and no GET was rejected, waterData holds the entries the
\* backend holds for the date
C23_LastWaterDataCurrent ==
  [][ (/\ WaterDataStored
       /\ waterPosts' = <<>>
       /\ waterGets' = 0
       /\ ~waterGetFailed)
        => SameEntries(waterData'.entries, waterLog') ]_vars


\* ------------------------------------------------------------------------
\* C25: the order of the entry list
\* ------------------------------------------------------------------------
\* Water renders with data loaded: after a response is stored, or again
\* with the same state
WaterRenders == WaterDataStored \/ RerenderWater

\* C25: every render of loaded water data shows the entries in the reverse
\* of the order the backend returned, and leaves the entries array of the
\* state as the backend returned it
C25_NewestFirstEveryRender ==
  [][ (WaterRenders /\ waterData' # Null)
        => /\ waterShown' = Reverse(waterReturned')
           /\ waterData'.entries = waterReturned' ]_vars


\* ------------------------------------------------------------------------
\* C24: the register screen
\* ------------------------------------------------------------------------
\* a register() call of the screen is in flight
RegisterInFlight(ops) == \E i \in 1..Len(ops) : ops[i].op = "register"

\* register() resolves: its fetchUserProfile returned, with the profile or
\* after the logout of its catch
RegisterResolves ==
  \E i \in 1..Len(authOps) :
    /\ authOps[i].op = "register"
    /\ FetchUserProfileResolve(i) \/ RemoveItemResolve(i)

\* register() throws: its POST was rejected or AsyncStorage failed
RegisterThrows ==
  \E i \in 1..Len(authOps) :
    /\ authOps[i].op = "register"
    /\ AuthPostReject(i) \/ SetItemReject(i) \/ RemoveItemReject(i)

\* C24: a submit with a required field empty calls register zero times and
\* leaves loading false; loading is true exactly while a register call is
\* in flight; the screen navigates to the dashboard only in the step where
\* register resolves, and never when it throws
C24_RegisterLoadingAndNavigation ==
  [][ /\ HandleRegister(FALSE) => (authOps' = authOps /\ regLoading' = FALSE)
      /\ regLoading' <=> RegisterInFlight(authOps')
      /\ route' # route => (route' = "dashboard" /\ RegisterResolves)
      /\ RegisterThrows => route' = route ]_vars

\* register() threw: the screen is still shown, with its alert, and loading
\* is false again
C24_Witness ==
  /\ route = "register"
  /\ regAlert = "Registration failed"
  /\ ~regLoading
  /\ ~RegisterInFlight(authOps)
=============================================================================
